---- MODULE Spec2Model ----
(***************************************************************************)
(* A model of the table lister of datograde/overpaint:                     *)
(*   src/src/listTables.tsx  (decorated output, column statistics)         *)
(*   src/src/listTables.ts   (plain output)                                *)
(*                                                                         *)
(* A JavaScript string is a sequence of one-character strings, so that     *)
(* quoting, concatenation with "." and number formatting are computed and  *)
(* not assumed.  null and undefined are the one-element sequences Null and *)
(* Undefined, which no character sequence equals.                          *)
(***************************************************************************)
EXTENDS Integers, Sequences, FiniteSets, TLC

VARIABLES
    variant,        \* "tsx" (listTables.tsx) or "ts" (listTables.ts)
    wantExact,      \* flags.has("--exact")
    pc,             \* where listTables() is suspended
    clientState,    \* the Client: "none", "created", "connected", "ended"
    poolState,      \* the Pool of buildExactView: "none", "created", "ended"
    estimated,      \* rows of fetchEstimatedTables
    res,            \* rows of the column enumeration of fetchColumnsByTable
    statCols,       \* rows of the enumeration the running statistics loop walks
    idx,            \* position of the running loop in its rows
    ranges,         \* Map key -> {min, max} of fetchNumericRanges
    hist,           \* Map key -> {true_count, false_count} of fetchBooleanHistograms
    columnsByTable, \* Map key -> ColumnInfo[] returned by fetchColumnsByTable
    views,          \* TableView[] built so far
    inflight,       \* fate of the count query being awaited
    thrown,         \* the rejection travelling up listTables(), or "none"
    stdout,         \* what was written to standard output
    stderr,         \* what was written to the error stream
    exitCode,       \* process.exitCode (0 while unset)
    queries,        \* log of the queries issued, in order, with what the database answered
    pure            \* the pure function applied last, its input and output

vars == <<variant, wantExact, pc, clientState, poolState, estimated, res, statCols,
          idx, ranges, hist, columnsByTable, views, inflight, thrown, stdout, stderr,
          exitCode, queries, pure>>

runVars == <<variant, wantExact, pc, clientState, poolState, estimated, res, statCols,
             idx, ranges, hist, columnsByTable, views, inflight, thrown, stdout, stderr,
             exitCode, queries>>

(***************************************************************************)
(* Bounds of the model.                                                    *)
(***************************************************************************)
\* tables the table enumeration returns at most
MaxTables == 2
\* rows the column enumeration returns at most
MaxColumns == 2
\* rows one statistics enumeration returns at most
MaxStatCols == 2
\* largest true/false count and percentage operand the pure functions are applied to
MaxCount == 16
\* longest identifier quoteIdent is applied to
MaxIdentLen == 4

(***************************************************************************)
(* Strings.                                                                *)
(***************************************************************************)
Null == <<"null">>
Undefined == <<"undefined">>

DigitChars == <<"0", "1", "2", "3", "4", "5", "6", "7", "8", "9">>

IsDigit(ch) == \E i \in 1..10 : DigitChars[i] = ch

DigitValue(ch) == (CHOOSE i \in 1..10 : DigitChars[i] = ch) - 1

\* bigint.toString() of a non-negative value: decimal digits, no leading zero
RECURSIVE BigIntToString(_)
BigIntToString(n) ==
    IF n < 10 THEN <<DigitChars[n + 1]>>
    ELSE BigIntToString(n \div 10) \o <<DigitChars[(n % 10) + 1]>>

RECURSIVE DigitsValue(_)
DigitsValue(s) ==
    IF s = <<>> THEN 0
    ELSE 10 * DigitsValue(SubSeq(s, 1, Len(s) - 1)) + DigitValue(s[Len(s)])

IsDigits(s) == Len(s) > 0 /\ \A i \in 1..Len(s) : IsDigit(s[i])

\* s1 + "." + s2, the `${a}.${b}` of the template literals
Dot(s1, s2) == s1 \o <<".">> \o s2

(***************************************************************************)
(* Pure functions of listTables.tsx.                                       *)
(***************************************************************************)
UpperChars ==
    <<"A", "B", "C", "D", "E", "F", "G", "H", "I", "J", "K", "L", "M", "N", "O", "P", "Q", "R", "S", "T", "U", "V", "W", "X", "Y", "Z">>

LowerChars ==
    <<"a", "b", "c", "d", "e", "f", "g", "h", "i", "j", "k", "l", "m", "n", "o", "p", "q", "r", "s", "t", "u", "v", "w", "x", "y", "z">>

LowerChar(ch) ==
    IF \E i \in 1..Len(UpperChars) : UpperChars[i] = ch
    THEN LowerChars[CHOOSE i \in 1..Len(UpperChars) : UpperChars[i] = ch]
    ELSE ch

\* String.prototype.toLowerCase
toLowerCase(s) == [i \in 1..Len(s) |-> LowerChar(s[i])]

TypeInteger == <<"i", "n", "t", "e", "g", "e", "r">>
TypeBigint == <<"b", "i", "g", "i", "n", "t">>
TypeBoolean == <<"b", "o", "o", "l", "e", "a", "n">>
TypeDate == <<"d", "a", "t", "e">>
TypeText == <<"t", "e", "x", "t">>

isNumericDataType(dt) ==
    LET t == toLowerCase(dt)
    IN t \in { <<"n", "u", "m", "e", "r", "i", "c">>,
               <<"d", "e", "c", "i", "m", "a", "l">>,
               <<"s", "m", "a", "l", "l", "i", "n", "t">>,
               TypeInteger,
               TypeBigint,
               <<"r", "e", "a", "l">>,
               <<"d", "o", "u", "b", "l", "e", " ", "p", "r", "e", "c", "i", "s", "i", "o", "n">> }

\* identifier.replace(/"/g, '""'): every double quote becomes two
RECURSIVE ReplaceAllQuotes(_)
ReplaceAllQuotes(s) ==
    IF s = <<>> THEN <<>>
    ELSE (IF Head(s) = "\"" THEN <<"\"", "\"">> ELSE <<Head(s)>>)
         \o ReplaceAllQuotes(Tail(s))

\* identifier.replace('"', '""'): only the first double quote becomes two
RECURSIVE ReplaceFirstQuote(_)
ReplaceFirstQuote(s) ==
    IF s = <<>> THEN <<>>
    ELSE IF Head(s) = "\"" THEN <<"\"", "\"">> \o Tail(s)
    ELSE <<Head(s)>> \o ReplaceFirstQuote(Tail(s))

quoteIdentFirstOnly(identifier) ==
    <<"\"">> \o ReplaceFirstQuote(identifier) \o <<"\"">>

quoteIdent(identifier) ==
    <<"\"">> \o ReplaceAllQuotes(identifier) \o <<"\"">>

isBooleanDataType(dt) == toLowerCase(dt) = TypeBoolean

\* the permille with d in place of d / 2 in the rounding term
formatPercentOneDecimalWholeD(n, d) ==
    IF d = 0 THEN <<"0", ".", "0", "%">>
    ELSE LET permille == (n * 1000 + d) \div d
             whole == permille \div 10
             tenth == permille % 10
         IN BigIntToString(whole) \o <<".">> \o BigIntToString(tenth) \o <<"%">>

\* the permille truncated instead of rounded
formatPercentOneDecimalTrunc(n, d) ==
    IF d = 0 THEN <<"0", ".", "0", "%">>
    ELSE LET permille == (n * 1000) \div d
             whole == permille \div 10
             tenth == permille % 10
         IN BigIntToString(whole) \o <<".">> \o BigIntToString(tenth) \o <<"%">>

formatPercentOneDecimal(n, d) ==
    IF d = 0 THEN <<"0", ".", "0", "%">>
    ELSE LET permille == (n * 1000 + d \div 2) \div d
             whole == permille \div 10
             tenth == permille % 10
         IN BigIntToString(whole) \o <<".">> \o BigIntToString(tenth) \o <<"%">>

\* BigInt(str) inside try/catch: the value of a decimal string, 0n when BigInt throws
BigIntOrZero(str) == IF IsDigits(str) THEN DigitsValue(str) ELSE 0

booleanPercents(trueStr, falseStr) ==
    LET t == BigIntOrZero(trueStr)
        f == BigIntOrZero(falseStr)
        d == t + f
    IN [tp |-> formatPercentOneDecimal(t, d), fp |-> formatPercentOneDecimal(f, d)]

\* the lookup table of humanDataType: <<raw type name, abbreviation>>
TypeLabelMap ==
    << <<<<"t", "i", "m", "e", "s", "t", "a", "m", "p", " ", "w", "i", "t", "h", " ", "t", "i", "m", "e", " ", "z", "o", "n", "e">>, <<"t", "s", "t", "z">>>>,
       <<<<"t", "i", "m", "e", "s", "t", "a", "m", "p", "t", "z">>, <<"t", "s", "t", "z">>>>,
       <<<<"t", "i", "m", "e", "s", "t", "a", "m", "p", " ", "w", "i", "t", "h", "o", "u", "t", " ", "t", "i", "m", "e", " ", "z", "o", "n", "e">>, <<"t", "s", "-", "n", "t", "z">>>>,
       <<<<"t", "i", "m", "e", "s", "t", "a", "m", "p">>, <<"t", "s", "-", "n", "t", "z">>>>,
       <<<<"t", "i", "m", "e", " ", "w", "i", "t", "h", " ", "t", "i", "m", "e", " ", "z", "o", "n", "e">>, <<"t", "i", "m", "e", "-", "t", "z">>>>,
       <<<<"t", "i", "m", "e", "t", "z">>, <<"t", "i", "m", "e", "-", "t", "z">>>>,
       <<<<"t", "i", "m", "e", " ", "w", "i", "t", "h", "o", "u", "t", " ", "t", "i", "m", "e", " ", "z", "o", "n", "e">>, <<"t", "i", "m", "e", "-", "n", "t", "z">>>>,
       <<<<"t", "i", "m", "e">>, <<"t", "i", "m", "e", "-", "n", "t", "z">>>>,
       <<<<"c", "h", "a", "r", "a", "c", "t", "e", "r", " ", "v", "a", "r", "y", "i", "n", "g">>, <<"v", "a", "r", "c", "h", "a", "r">>>>,
       <<<<"v", "a", "r", "c", "h", "a", "r">>, <<"v", "a", "r", "c", "h", "a", "r">>>>,
       <<<<"c", "h", "a", "r", "a", "c", "t", "e", "r">>, <<"c", "h", "a", "r">>>>,
       <<<<"c", "h", "a", "r">>, <<"c", "h", "a", "r">>>>,
       <<<<"t", "e", "x", "t">>, <<"t", "e", "x", "t">>>>,
       <<<<"i", "n", "t", "e", "g", "e", "r">>, <<"i", "n", "t">>>>,
       <<<<"i", "n", "t", "4">>, <<"i", "n", "t">>>>,
       <<<<"b", "i", "g", "i", "n", "t">>, <<"b", "i", "g", "i", "n", "t">>>>,
       <<<<"i", "n", "t", "8">>, <<"b", "i", "g", "i", "n", "t">>>>,
       <<<<"s", "m", "a", "l", "l", "i", "n", "t">>, <<"s", "m", "a", "l", "l", "i", "n", "t">>>>,
       <<<<"i", "n", "t", "2">>, <<"s", "m", "a", "l", "l", "i", "n", "t">>>>,
       <<<<"n", "u", "m", "e", "r", "i", "c">>, <<"n", "u", "m", "e", "r", "i", "c">>>>,
       <<<<"d", "e", "c", "i", "m", "a", "l">>, <<"d", "e", "c", "i", "m", "a", "l">>>>,
       <<<<"r", "e", "a", "l">>, <<"r", "e", "a", "l">>>>,
       <<<<"d", "o", "u", "b", "l", "e", " ", "p", "r", "e", "c", "i", "s", "i", "o", "n">>, <<"f", "l", "o", "a", "t", "8">>>>,
       <<<<"f", "l", "o", "a", "t", "8">>, <<"f", "l", "o", "a", "t", "8">>>>,
       <<<<"b", "o", "o", "l", "e", "a", "n">>, <<"b", "o", "o", "l">>>>,
       <<<<"b", "o", "o", "l">>, <<"b", "o", "o", "l">>>>,
       <<<<"u", "u", "i", "d">>, <<"u", "u", "i", "d">>>>,
       <<<<"j", "s", "o", "n", "b">>, <<"j", "s", "o", "n", "b">>>>,
       <<<<"j", "s", "o", "n">>, <<"j", "s", "o", "n">>>>,
       <<<<"b", "y", "t", "e", "a">>, <<"b", "y", "t", "e", "a">>>>,
       <<<<"d", "a", "t", "e">>, <<"d", "a", "t", "e">>>>,
       <<<<"i", "n", "t", "e", "r", "v", "a", "l">>, <<"i", "n", "t", "e", "r", "v", "a", "l">>>> >>

\* the label without the cut to 8 characters
humanDataTypeUncut(dt) ==
    LET t == toLowerCase(dt)
        hits == { i \in 1..Len(TypeLabelMap) : TypeLabelMap[i][1] = t }
    IN IF hits = {} THEN dt ELSE TypeLabelMap[CHOOSE i \in hits : TRUE][2]

\* map[t] ?? dt, then out.slice(0, 8) when longer than 8
humanDataType(dt) ==
    LET t == toLowerCase(dt)
        hits == { i \in 1..Len(TypeLabelMap) : TypeLabelMap[i][1] = t }
        out == IF hits = {} THEN dt ELSE TypeLabelMap[CHOOSE i \in hits : TRUE][2]
    IN IF Len(out) > 8 THEN SubSeq(out, 1, 8) ELSE out

isTemporalDataType(dt) ==
    LET t == toLowerCase(dt)
    IN t \in { TypeDate,
               <<"t", "i", "m", "e", "s", "t", "a", "m", "p", " ", "w", "i", "t", "h", " ", "t", "i", "m", "e", " ", "z", "o", "n", "e">>,
               <<"t", "i", "m", "e", "s", "t", "a", "m", "p", " ", "w", "i", "t", "h", "o", "u", "t", " ", "t", "i", "m", "e", " ", "z", "o", "n", "e">>,
               <<"t", "i", "m", "e", "s", "t", "a", "m", "p", "t", "z">>,
               <<"t", "i", "m", "e", " ", "w", "i", "t", "h", " ", "t", "i", "m", "e", " ", "z", "o", "n", "e">>,
               <<"t", "i", "m", "e", " ", "w", "i", "t", "h", "o", "u", "t", " ", "t", "i", "m", "e", " ", "z", "o", "n", "e">>,
               <<"t", "i", "m", "e", "t", "z">>,
               <<"t", "i", "m", "e", "s", "t", "a", "m", "p">>,
               <<"t", "i", "m", "e">> }

\* what a call that throws a TypeError yields
TypeError == <<"TypeError">>

TwoDigits(s, i) == IsDigit(s[i]) /\ IsDigit(s[i + 1])

TwoDigitValue(s, i) == 10 * DigitValue(s[i]) + DigitValue(s[i + 1])

\* s is a date-only string "YYYY-MM-DD" of a day every month has (01..28); the
\* catalog answers of the model hold no other form of valid date
IsIsoDate(s) ==
    /\ Len(s) = 10
    /\ IsDigits(SubSeq(s, 1, 4))
    /\ s[5] = "-" /\ s[8] = "-"
    /\ TwoDigits(s, 6) /\ TwoDigits(s, 9)
    /\ TwoDigitValue(s, 6) \in 1..12
    /\ TwoDigitValue(s, 9) \in 1..28

\* a Date | null; "throws" stands for the TypeError of a call that never returns
NoDate(tag) == [tag |-> tag, year |-> 0, month |-> 0, hours |-> 0, minutes |-> 0]

\* new Date(normalized) of a date-only string, as its UTC year and month; null when
\* the date is invalid or when s.includes throws on undefined inside the try
safeParseDateLike(s) ==
    IF s = Undefined THEN NoDate("null")
    ELSE IF IsIsoDate(s)
    THEN [NoDate("date") EXCEPT !.year = DigitsValue(SubSeq(s, 1, 4)),
                                !.month = TwoDigitValue(s, 6)]
    ELSE NoDate("null")

\* s is of the form "HH:MM:SS"
IsClockTime(s) ==
    /\ Len(s) = 8
    /\ TwoDigits(s, 1) /\ s[3] = ":" /\ TwoDigits(s, 4) /\ s[6] = ":" /\ TwoDigits(s, 7)
    /\ TwoDigitValue(s, 1) \in 0..23
    /\ TwoDigitValue(s, 4) \in 0..59
    /\ TwoDigitValue(s, 7) \in 0..59

\* new Date("1970-01-01T" + s + "Z") as its UTC hours and minutes; s.includes throws
\* on undefined, outside any try
parseTimeOnly(s) ==
    IF s = Undefined THEN NoDate("throws")
    ELSE IF IsClockTime(s)
    THEN [NoDate("date") EXCEPT !.hours = TwoDigitValue(s, 1),
                                !.minutes = TwoDigitValue(s, 4)]
    ELSE NoDate("null")

Months ==
    << <<"J", "a", "n">>,
       <<"F", "e", "b">>,
       <<"M", "a", "r">>,
       <<"A", "p", "r">>,
       <<"M", "a", "y">>,
       <<"J", "u", "n">>,
       <<"J", "u", "l">>,
       <<"A", "u", "g">>,
       <<"S", "e", "p">>,
       <<"O", "c", "t">>,
       <<"N", "o", "v">>,
       <<"D", "e", "c">> >>

fmtMonthYear(d) == Months[d.month] \o <<" ">> \o BigIntToString(d.year)

\* String(n).padStart(2, "0")
PadStart2(n) == IF n < 10 THEN <<"0">> \o BigIntToString(n) ELSE BigIntToString(n)

fmtHHMM(d) == PadStart2(d.hours) \o <<":">> \o PadStart2(d.minutes)

StartsWith(s, prefix) ==
    Len(s) >= Len(prefix) /\ SubSeq(s, 1, Len(prefix)) = prefix

formatTemporalRange(minStr, maxStr, dt) ==
    LET t == toLowerCase(dt)
        isTimeOnly == StartsWith(t, <<"t", "i", "m", "e", " ">>) \/ t = <<"t", "i", "m", "e">> \/ t = <<"t", "i", "m", "e", "t", "z">>
    IN IF isTimeOnly
       THEN LET d1 == parseTimeOnly(minStr)
                d2 == parseTimeOnly(maxStr)
            IN IF d1.tag = "throws" THEN TypeError
               ELSE IF d2.tag = "throws" THEN TypeError
               ELSE IF d1.tag = "null" \/ d2.tag = "null" THEN Null
               ELSE fmtHHMM(d1) \o <<"-">> \o fmtHHMM(d2)
       ELSE LET d1 == safeParseDateLike(minStr)
                d2 == safeParseDateLike(maxStr)
            IN IF d1.tag = "null" \/ d2.tag = "null" THEN Null
               ELSE fmtMonthYear(d1) \o <<"-">> \o fmtMonthYear(d2)

(***************************************************************************)
(* The database the run talks to.  The catalog is live: each enumeration   *)
(* answers with the rows it holds at that moment, any ordered selection of *)
(* the rows below, or fails.                                               *)
(***************************************************************************)
\* the elements of list at the positions in S, in the order of list
Select(list, S) ==
    LET F[i \in 0..Len(list)] ==
            IF i = 0 THEN <<>>
            ELSE IF i \in S THEN Append(F[i - 1], list[i]) ELSE F[i - 1]
    IN F[Len(list)]

\* the ordered selections of at most k elements of list
SubLists(list, k) ==
    { Select(list, S) : S \in { T \in SUBSET (1..Len(list)) : Cardinality(T) <= k } }

\* pg_class rows, ORDER BY nspname, relname
AllTables ==
    << [table_schema |-> <<"a">>, table_name |-> <<"b", ".", "c">>, column_count |-> 1, estimated_rows |-> 0],
       [table_schema |-> <<"a", ".", "b">>, table_name |-> <<"c">>, column_count |-> 1, estimated_rows |-> 7],
       [table_schema |-> <<"s">>, table_name |-> <<"t">>, column_count |-> 2, estimated_rows |-> 12] >>

\* information_schema.columns rows, ORDER BY table_schema, table_name, ordinal_position
AllColumns ==
    << [table_schema |-> <<"a">>, table_name |-> <<"b", ".", "c">>, column_name |-> <<"d">>, data_type |-> TypeInteger],
       [table_schema |-> <<"a", ".", "b">>, table_name |-> <<"c">>, column_name |-> <<"d">>, data_type |-> TypeBigint],
       [table_schema |-> <<"s">>, table_name |-> <<"t">>, column_name |-> <<"o", "k">>, data_type |-> TypeBoolean],
       [table_schema |-> <<"s">>, table_name |-> <<"t">>, column_name |-> <<"a", "t">>, data_type |-> TypeDate] >>

StatRow(c) ==
    [table_schema |-> c.table_schema, table_name |-> c.table_name, column_name |-> c.column_name]

\* the rows with a numeric or temporal data_type, ORDER BY table_schema, table_name,
\* column_name; column at of s.t is gone from the catalog by the time of this enumeration
NumericColumns == << StatRow(AllColumns[1]), StatRow(AllColumns[2]) >>

\* the rows with data_type = 'boolean'
BooleanColumns == << StatRow(AllColumns[3]) >>

Failed == [ok |-> FALSE]

TableAnswers == {Failed} \cup { [ok |-> TRUE, rows |-> r] : r \in SubLists(AllTables, MaxTables) }

ColumnAnswers == {Failed} \cup { [ok |-> TRUE, rows |-> r] : r \in SubLists(AllColumns, MaxColumns) }

NumericEnumAnswers ==
    {Failed} \cup { [ok |-> TRUE, rows |-> r] : r \in SubLists(NumericColumns, MaxStatCols) }

BooleanEnumAnswers ==
    {Failed} \cup { [ok |-> TRUE, rows |-> r] : r \in SubLists(BooleanColumns, MaxStatCols) }

\* MIN(col)::text, MAX(col)::text: both NULL over an empty table
RangeAnswers ==
    {Failed} \cup
    { [ok |-> TRUE, min |-> Null, max |-> Null],
      [ok |-> TRUE, min |-> <<"1">>, max |-> <<"9">>] }

\* COUNT(*) FILTER (...)::bigint AS t, f
HistAnswers ==
    {Failed} \cup
    { [ok |-> TRUE, t |-> <<"0">>, f |-> <<"0">>],
      [ok |-> TRUE, t |-> <<"1">>, f |-> <<"2">>] }

\* COUNT(*)::bigint AS count
CountAnswers ==
    {Failed} \cup { [ok |-> TRUE, count |-> <<"0">>], [ok |-> TRUE, count |-> <<"3">>] }

(***************************************************************************)
(* Maps (new Map()) as functions on the set of their keys.                 *)
(***************************************************************************)
EmptyMap == [k \in {} |-> <<>>]

MapHas(m, k) == k \in DOMAIN m

MapSet(m, k, v) == [x \in (DOMAIN m) \cup {k} |-> IF x = k THEN v ELSE m[x]]

TableKey(schema, table) == Dot(schema, table)

ColumnKey(schema, table, column) == Dot(Dot(schema, table), column)

\* a query of the log: what was asked, of which object, and what came back
Query(kind, target, state, answer) ==
    [kind |-> kind, target |-> target, state |-> state, answer |-> answer]

\* the object a statistics query or a count query is about
StatTarget(col) == <<col.table_schema, col.table_name, col.column_name>>

CountTarget(t) == <<t.table_schema, t.table_name>>

\* the objects an enumeration answered with, in its order
StatTargets(rows) == [i \in 1..Len(rows) |-> StatTarget(rows[i])]

CountTargets(rows) == [i \in 1..Len(rows) |-> CountTarget(rows[i])]

(***************************************************************************)
(* fetchColumnsByTable's grouping, the view builders and the renderers.    *)
(***************************************************************************)
\* the ColumnInfo pushed for row r: listTables.tsx joins the statistics in,
\* listTables.ts keeps the name and the type
ColumnInfoOf(r, rg, bh, v) ==
    IF v = "ts"
    THEN [column_name |-> r.column_name, data_type |-> r.data_type]
    ELSE LET rangeKey == ColumnKey(r.table_schema, r.table_name, r.column_name)
         IN [column_name |-> r.column_name,
             data_type |-> r.data_type,
             min |-> IF MapHas(rg, rangeKey) THEN rg[rangeKey].min ELSE Undefined,
             max |-> IF MapHas(rg, rangeKey) THEN rg[rangeKey].max ELSE Undefined,
             true_count |-> IF MapHas(bh, rangeKey) THEN bh[rangeKey].true_count ELSE Null,
             false_count |-> IF MapHas(bh, rangeKey) THEN bh[rangeKey].false_count ELSE Null]

\* the byTable map of fetchColumnsByTable: rows pushed, in order, under schema.table
GroupByTable(rows, rg, bh, v) ==
    LET F[i \in 0..Len(rows)] ==
            IF i = 0 THEN EmptyMap
            ELSE LET r == rows[i]
                     key == TableKey(r.table_schema, r.table_name)
                     sofar == IF MapHas(F[i - 1], key) THEN F[i - 1][key] ELSE <<>>
                 IN MapSet(F[i - 1], key, Append(sofar, ColumnInfoOf(r, rg, bh, v)))
    IN F[Len(rows)]

\* bigint | null | undefined
BigInt(n) == [tag |-> "bigint", v |-> n]
NullRows == [tag |-> "null", v |-> 0]
UndefinedRows == [tag |-> "undefined", v |-> 0]

\* columnsByTable.get(`${t.table_schema}.${t.table_name}`) ?? []
ColumnsOf(byTable, t) ==
    LET key == TableKey(t.table_schema, t.table_name)
    IN IF MapHas(byTable, key) THEN byTable[key] ELSE <<>>

ViewOf(t, byTable, est, exact) ==
    [table_schema |-> t.table_schema,
     table_name |-> t.table_name,
     column_count |-> t.column_count,
     columns |-> ColumnsOf(byTable, t),
     estimated_rows |-> est,
     exact_rows |-> exact]

buildEstimatedView(est, byTable) ==
    [i \in 1..Len(est) |-> ViewOf(est[i], byTable, BigInt(est[i].estimated_rows), UndefinedRows)]

\* exact = BigInt(r.rows[0].count); null from the catch when the query or BigInt throws
ExactRowsOf(answer) ==
    IF answer.ok /\ IsDigits(answer.count) THEN BigInt(DigitsValue(answer.count))
    ELSE NullRows

\* a failed count labelled as no count at all
countLabelForZeroOnNull(v, mode) ==
    IF mode = "estimated"
    THEN <<"~">> \o (IF v.estimated_rows.tag = "bigint"
                     THEN BigIntToString(v.estimated_rows.v) ELSE <<"0">>)
    ELSE IF v.exact_rows.tag = "bigint" THEN BigIntToString(v.exact_rows.v)
    ELSE <<"0">>

countLabelFor(v, mode) ==
    IF mode = "estimated"
    THEN <<"~">> \o (IF v.estimated_rows.tag = "bigint"
                     THEN BigIntToString(v.estimated_rows.v) ELSE <<"0">>)
    ELSE IF v.exact_rows.tag = "null" THEN <<"e", "r", "r", "o", "r">>
    ELSE IF v.exact_rows.tag = "bigint" THEN BigIntToString(v.exact_rows.v)
    ELSE <<"0">>

\* `${x}` of a string | undefined
Interpolate(x) == IF x = Undefined THEN <<"u", "n", "d", "e", "f", "i", "n", "e", "d">> ELSE x

\* the range cell of column c in listTables.tsx; TypeError when computing it throws
RangeCell(c) ==
    IF isNumericDataType(c.data_type) /\ c.min # Null /\ c.max # Null
    THEN Interpolate(c.min) \o <<"-">> \o Interpolate(c.max)
    ELSE IF isTemporalDataType(c.data_type) /\ c.min # Null /\ c.max # Null
    THEN LET fr == formatTemporalRange(c.min, c.max, c.data_type)
         IN IF fr = Null THEN <<>> ELSE fr
    ELSE <<>>

\* the values cell of column c in listTables.tsx
ValuesCell(c) ==
    IF isBooleanDataType(c.data_type) /\ c.true_count # Null /\ c.false_count # Null
    THEN LET p == booleanPercents(c.true_count, c.false_count)
         IN <<"Y", "e", "s", " ">> \o c.true_count \o <<" ", "(">> \o p.tp \o <<")", " ", "|", " ", "N", "o", " ">>
            \o c.false_count \o <<" ", "(">> \o p.fp \o <<")">>
    ELSE <<>>

\* listTables.ts printing the type in the place of the name
ColumnRowTypeForName(c, v) ==
    IF v = "ts"
    THEN [name |-> c.data_type, type |-> c.data_type]
    ELSE [name |-> c.column_name, typeLabel |-> humanDataType(c.data_type),
          range |-> RangeCell(c), values |-> ValuesCell(c)]

\* one row of a table's column listing
ColumnRow(c, v) ==
    IF v = "ts"
    THEN [name |-> c.column_name, type |-> c.data_type]
    ELSE [name |-> c.column_name, typeLabel |-> humanDataType(c.data_type),
          range |-> RangeCell(c), values |-> ValuesCell(c)]

\* the section of view w: its title line and its column rows
Section(w, mode, v) ==
    [kind |-> "table",
     title |-> Dot(w.table_schema, w.table_name),
     countLabel |-> countLabelFor(w, mode),
     column_count |-> w.column_count,
     rows |-> [i \in 1..Len(w.columns) |-> ColumnRow(w.columns[i], v)]]

Header(mode) == [kind |-> "header", mode |-> mode]

NoTablesFound == [kind |-> "message", text |-> "No tables found."]

\* computing some cell of the decorated layout throws
RenderThrows(vs, v) ==
    /\ v = "tsx"
    /\ \E i \in 1..Len(vs) : \E j \in 1..Len(vs[i].columns) :
          RangeCell(vs[i].columns[j]) = TypeError

\* what renderTables writes: the header, then one section per view
renderTables(vs, mode, v) ==
    <<Header(mode)>> \o [i \in 1..Len(vs) |-> Section(vs[i], mode, v)]

(***************************************************************************)
(* The run: listTables() and the handler of its rejection.                 *)
(***************************************************************************)
Init ==
    /\ variant \in {"tsx", "ts"}
    /\ wantExact \in BOOLEAN
    /\ pc = "start"
    /\ clientState = "none"
    /\ poolState = "none"
    /\ estimated = <<>>
    /\ res = <<>>
    /\ statCols = <<>>
    /\ idx = 0
    /\ ranges = EmptyMap
    /\ hist = EmptyMap
    /\ columnsByTable = EmptyMap
    /\ views = <<>>
    /\ inflight = "none"
    /\ thrown = "none"
    /\ stdout = <<>>
    /\ stderr = <<>>
    /\ exitCode = 0
    /\ queries = <<>>
    /\ pure = [op |-> "none"]

\* a rejected await inside the try of listTables: on to its finally
Reject(kind) ==
    /\ thrown' = "query"
    /\ pc' = "finally"
    /\ queries' = Append(queries, Query(kind, <<>>, "failed", <<>>))

\* new Client(...); await client.connect(), which stands before the try
Connect ==
    /\ pc = "start"
    /\ \E ok \in BOOLEAN :
          IF ok
          THEN clientState' = "connected" /\ pc' = "fetchEstimatedTables" /\ thrown' = thrown
          ELSE clientState' = "created" /\ pc' = "catch" /\ thrown' = "connect"
    /\ UNCHANGED <<variant, wantExact, poolState, estimated, res, statCols, idx, ranges,
                   hist, columnsByTable, views, inflight, stdout, stderr, exitCode,
                   queries, pure>>

\* const estimated = await fetchEstimatedTables(client)
FetchEstimatedTables ==
    /\ pc = "fetchEstimatedTables"
    /\ \E answer \in TableAnswers :
          IF answer.ok
          THEN /\ estimated' = answer.rows
               /\ pc' = "fetchColumns"
               /\ queries' = Append(queries, Query("tables", <<>>, "ok", CountTargets(answer.rows)))
               /\ thrown' = thrown
          ELSE Reject("tables") /\ estimated' = estimated
    /\ UNCHANGED <<variant, wantExact, clientState, poolState, res, statCols, idx, ranges,
                   hist, columnsByTable, views, inflight, stdout, stderr, exitCode, pure>>

\* fetchColumnsByTable: the column enumeration; listTables.ts groups its rows at once
FetchColumns ==
    /\ pc = "fetchColumns"
    /\ \E answer \in ColumnAnswers :
          IF answer.ok
          THEN /\ res' = answer.rows
               /\ queries' = Append(queries, Query("columns", <<>>, "ok", StatTargets(answer.rows)))
               /\ thrown' = thrown
               /\ IF variant = "ts"
                  THEN /\ columnsByTable' = GroupByTable(answer.rows, EmptyMap, EmptyMap, "ts")
                       /\ pc' = "dispatch"
                  ELSE /\ columnsByTable' = columnsByTable
                       /\ pc' = "fetchNumericRanges"
          ELSE Reject("columns") /\ UNCHANGED <<res, columnsByTable>>
    /\ UNCHANGED <<variant, wantExact, clientState, poolState, estimated, statCols, idx,
                   ranges, hist, views, inflight, stdout, stderr, exitCode, pure>>

\* fetchNumericRanges: the enumeration of the numeric and temporal columns
FetchNumericColumns ==
    /\ pc = "fetchNumericRanges"
    /\ \E answer \in NumericEnumAnswers :
          IF answer.ok
          THEN /\ statCols' = answer.rows
               /\ idx' = 1
               /\ pc' = IF answer.rows = <<>> THEN "fetchBooleanHistograms" ELSE "rangeQuery"
               /\ queries' = Append(queries, Query("numericColumns", <<>>, "ok", StatTargets(answer.rows)))
               /\ thrown' = thrown
          ELSE Reject("numericColumns") /\ UNCHANGED <<statCols, idx>>
    /\ UNCHANGED <<variant, wantExact, clientState, poolState, estimated, res, ranges,
                   hist, columnsByTable, views, inflight, stdout, stderr, exitCode, pure>>

\* the catch of the loop left out: a failed MIN/MAX query rejects fetchNumericRanges
RangeQueryStepNoCatch(col, answer) ==
    IF answer.ok
    THEN /\ ranges' = MapSet(ranges,
                             ColumnKey(col.table_schema, col.table_name, col.column_name),
                             [min |-> answer.min, max |-> answer.max])
         /\ queries' = Append(queries, Query("range", StatTarget(col), "ok",
                                             <<answer.min, answer.max>>))
         /\ idx' = idx + 1
         /\ pc' = IF idx = Len(statCols) THEN "fetchBooleanHistograms" ELSE "rangeQuery"
         /\ thrown' = thrown
    ELSE /\ ranges' = ranges
         /\ queries' = Append(queries, Query("range", StatTarget(col), "failed", <<>>))
         /\ idx' = idx
         /\ pc' = "finally"
         /\ thrown' = "query"

\* a failed MIN/MAX query asked again
RangeQueryStepRetry(col, answer) ==
    /\ ranges' = IF answer.ok
                 THEN MapSet(ranges,
                             ColumnKey(col.table_schema, col.table_name, col.column_name),
                             [min |-> answer.min, max |-> answer.max])
                 ELSE ranges
    /\ queries' = Append(queries,
                         IF answer.ok
                         THEN Query("range", StatTarget(col), "ok", <<answer.min, answer.max>>)
                         ELSE Query("range", StatTarget(col), "failed", <<>>))
    /\ idx' = IF answer.ok THEN idx + 1 ELSE idx
    /\ pc' = IF answer.ok /\ idx = Len(statCols) THEN "fetchBooleanHistograms" ELSE "rangeQuery"
    /\ thrown' = thrown

\* one turn of the loop of fetchNumericRanges: the MIN/MAX query of col and its catch
RangeQueryStep(col, answer) ==
    /\ ranges' = MapSet(ranges,
                        ColumnKey(col.table_schema, col.table_name, col.column_name),
                        IF answer.ok THEN [min |-> answer.min, max |-> answer.max]
                        ELSE [min |-> Null, max |-> Null])
    /\ queries' = Append(queries,
                         IF answer.ok
                         THEN Query("range", StatTarget(col), "ok", <<answer.min, answer.max>>)
                         ELSE Query("range", StatTarget(col), "failed", <<>>))
    /\ idx' = idx + 1
    /\ pc' = IF idx = Len(statCols) THEN "fetchBooleanHistograms" ELSE "rangeQuery"
    /\ thrown' = thrown

RangeQuery ==
    /\ pc = "rangeQuery"
    /\ \E answer \in RangeAnswers : RangeQueryStep(statCols[idx], answer)
    /\ UNCHANGED <<variant, wantExact, clientState, poolState, estimated, res, statCols,
                   hist, columnsByTable, views, inflight, stdout, stderr, exitCode, pure>>

\* fetchBooleanHistograms: the enumeration of the boolean columns; with none,
\* fetchColumnsByTable groups its rows and returns
FetchBooleanColumns ==
    /\ pc = "fetchBooleanHistograms"
    /\ \E answer \in BooleanEnumAnswers :
          IF answer.ok
          THEN /\ statCols' = answer.rows
               /\ idx' = 1
               /\ queries' = Append(queries, Query("booleanColumns", <<>>, "ok", StatTargets(answer.rows)))
               /\ thrown' = thrown
               /\ IF answer.rows = <<>>
                  THEN /\ columnsByTable' = GroupByTable(res, ranges, hist, "tsx")
                       /\ pc' = "dispatch"
                  ELSE /\ columnsByTable' = columnsByTable
                       /\ pc' = "histQuery"
          ELSE Reject("booleanColumns") /\ UNCHANGED <<statCols, idx, columnsByTable>>
    /\ UNCHANGED <<variant, wantExact, clientState, poolState, estimated, res, ranges,
                   hist, views, inflight, stdout, stderr, exitCode, pure>>

\* one turn of the loop of fetchBooleanHistograms: the true/false counts of col and
\* its catch; after the last turn fetchColumnsByTable groups its rows and returns
HistQueryStep(col, answer) ==
    LET key == ColumnKey(col.table_schema, col.table_name, col.column_name)
        entry == IF answer.ok THEN [true_count |-> answer.t, false_count |-> answer.f]
                 ELSE [true_count |-> Null, false_count |-> Null]
    IN /\ hist' = MapSet(hist, key, entry)
       /\ queries' = Append(queries,
                            IF answer.ok
                            THEN Query("hist", StatTarget(col), "ok", <<answer.t, answer.f>>)
                            ELSE Query("hist", StatTarget(col), "failed", <<>>))
       /\ idx' = idx + 1
       /\ thrown' = thrown
       /\ IF idx = Len(statCols)
          THEN /\ columnsByTable' = GroupByTable(res, ranges, MapSet(hist, key, entry), "tsx")
               /\ pc' = "dispatch"
          ELSE /\ columnsByTable' = columnsByTable
               /\ pc' = "histQuery"

HistQuery ==
    /\ pc = "histQuery"
    /\ \E answer \in HistAnswers : HistQueryStep(statCols[idx], answer)
    /\ UNCHANGED <<variant, wantExact, clientState, poolState, estimated, res, statCols,
                   ranges, views, inflight, stdout, stderr, exitCode, pure>>

\* what calling renderTables(vs, mode) does: the output is written, or the
\* computation of a cell throws
Render(vs, mode) ==
    IF RenderThrows(vs, variant)
    THEN stdout' = stdout /\ thrown' = "render"
    ELSE stdout' = stdout \o renderTables(vs, mode, variant) /\ thrown' = thrown

\* the emptiness test left out
NeverEmpty(est) == FALSE

\* estimated.length === 0
CatalogIsEmpty(est) == Len(est) = 0

\* the header of the exact listing written before the counts are made
DispatchHeaderFirst ==
    /\ pc = "dispatch"
    /\ IF CatalogIsEmpty(estimated)
       THEN /\ stdout' = Append(stdout, NoTablesFound)
            /\ pc' = "finally"
            /\ UNCHANGED <<views, poolState, idx, thrown>>
       ELSE IF ~wantExact
       THEN /\ views' = buildEstimatedView(estimated, columnsByTable)
            /\ Render(buildEstimatedView(estimated, columnsByTable), "estimated")
            /\ pc' = "finally"
            /\ UNCHANGED <<poolState, idx>>
       ELSE /\ poolState' = "created"
            /\ views' = <<>>
            /\ idx' = 1
            /\ pc' = IF estimated = <<>> THEN "poolEnd" ELSE "countQuery"
            /\ stdout' = Append(stdout, Header("exact"))
            /\ thrown' = thrown
    /\ UNCHANGED <<variant, wantExact, clientState, estimated, res, statCols, ranges, hist,
                   columnsByTable, inflight, stderr, exitCode, queries, pure>>

\* listTables after fetchColumnsByTable has returned: the empty catalog, the
\* estimated listing, or the start of buildExactView (new Pool, first turn of its loop)
Dispatch ==
    /\ pc = "dispatch"
    /\ IF CatalogIsEmpty(estimated)
       THEN /\ stdout' = Append(stdout, NoTablesFound)
            /\ pc' = "finally"
            /\ UNCHANGED <<views, poolState, idx, thrown>>
       ELSE IF ~wantExact
       THEN /\ views' = buildEstimatedView(estimated, columnsByTable)
            /\ Render(buildEstimatedView(estimated, columnsByTable), "estimated")
            /\ pc' = "finally"
            /\ UNCHANGED <<poolState, idx>>
       ELSE /\ poolState' = "created"
            /\ views' = <<>>
            /\ idx' = 1
            /\ pc' = IF estimated = <<>> THEN "poolEnd" ELSE "countQuery"
            /\ UNCHANGED <<stdout, thrown>>
    /\ UNCHANGED <<variant, wantExact, clientState, estimated, res, statCols, ranges, hist,
                   columnsByTable, inflight, stderr, exitCode, queries, pure>>

\* pool.query(countSql) is issued and awaited; the database answers it, or never does
CountQuery ==
    /\ pc = "countQuery"
    /\ \E fate \in {"completes", "never"} : inflight' = fate
    /\ queries' = Append(queries, Query("count", CountTarget(estimated[idx]), "pending", <<>>))
    /\ pc' = "countWait"
    /\ UNCHANGED <<variant, wantExact, clientState, poolState, estimated, res, statCols, idx,
                   ranges, hist, columnsByTable, views, thrown, stdout, stderr, exitCode,
                   pure>>

\* the catch of the loop left out: a failed count rejects buildExactView
CountReplyStepNoCatch(t, answer) ==
    /\ queries' = [queries EXCEPT ![Len(queries)] =
                      IF answer.ok THEN Query("count", CountTarget(t), "ok", answer.count)
                      ELSE Query("count", CountTarget(t), "failed", <<>>)]
    /\ inflight' = "none"
    /\ IF answer.ok
       THEN /\ views' = Append(views, ViewOf(t, columnsByTable, UndefinedRows, ExactRowsOf(answer)))
            /\ idx' = idx + 1
            /\ pc' = IF idx = Len(estimated) THEN "poolEnd" ELSE "countQuery"
            /\ thrown' = thrown
       ELSE /\ views' = views
            /\ idx' = idx
            /\ pc' = "poolEnd"
            /\ thrown' = "query"

\* the rest of one turn of the loop of buildExactView: the answer, the catch, the push
CountReplyStep(t, answer) ==
    /\ queries' = [queries EXCEPT ![Len(queries)] =
                      IF answer.ok THEN Query("count", CountTarget(t), "ok", answer.count)
                      ELSE Query("count", CountTarget(t), "failed", <<>>)]
    /\ inflight' = "none"
    /\ views' = Append(views, ViewOf(t, columnsByTable, UndefinedRows, ExactRowsOf(answer)))
    /\ idx' = idx + 1
    /\ pc' = IF idx = Len(estimated) THEN "poolEnd" ELSE "countQuery"
    /\ thrown' = thrown

CountReply ==
    /\ pc = "countWait"
    /\ inflight = "completes"
    /\ \E answer \in CountAnswers : CountReplyStep(estimated[idx], answer)
    /\ UNCHANGED <<variant, wantExact, clientState, poolState, estimated, res, statCols,
                   ranges, hist, columnsByTable, stdout, stderr, exitCode, pure>>

\* the finally of buildExactView, await pool.end().catch(() => {}), whose own failure
\* is swallowed; then, unless buildExactView rejected, renderTables(views, "exact")
PoolEnd ==
    /\ pc = "poolEnd"
    /\ poolState' = "ended"
    /\ IF thrown = "none" THEN Render(views, "exact") ELSE UNCHANGED <<stdout, thrown>>
    /\ pc' = "finally"
    /\ UNCHANGED <<variant, wantExact, clientState, estimated, res, statCols, idx, ranges,
                   hist, columnsByTable, views, inflight, stderr, exitCode, queries, pure>>

\* the finally of listTables: await client.end()
ClientEnd ==
    /\ pc = "finally"
    /\ clientState' = "ended"
    /\ pc' = IF thrown = "none" THEN "done" ELSE "catch"
    /\ UNCHANGED <<variant, wantExact, poolState, estimated, res, statCols, idx, ranges,
                   hist, columnsByTable, views, inflight, thrown, stdout, stderr, exitCode,
                   queries, pure>>

\* the handler logging the error and leaving process.exitCode unset
CatchLogOnly ==
    /\ pc = "catch"
    /\ stderr' = Append(stderr, [text |-> "Failed to list tables:", err |-> thrown])
    /\ exitCode' = exitCode
    /\ pc' = "done"
    /\ UNCHANGED <<variant, wantExact, clientState, poolState, estimated, res, statCols, idx,
                   ranges, hist, columnsByTable, views, inflight, thrown, stdout, queries,
                   pure>>

\* listTables().catch(...): console.error and process.exitCode = 1
Catch ==
    /\ pc = "catch"
    /\ stderr' = Append(stderr, [text |-> "Failed to list tables:", err |-> thrown])
    /\ exitCode' = 1
    /\ pc' = "done"
    /\ UNCHANGED <<variant, wantExact, clientState, poolState, estimated, res, statCols, idx,
                   ranges, hist, columnsByTable, views, inflight, thrown, stdout, queries,
                   pure>>

Next ==
    \/ Connect
    \/ FetchEstimatedTables
    \/ FetchColumns
    \/ FetchNumericColumns
    \/ RangeQuery
    \/ FetchBooleanColumns
    \/ HistQuery
    \/ Dispatch
    \/ CountQuery
    \/ CountReply
    \/ PoolEnd
    \/ ClientEnd
    \/ Catch

Spec == Init /\ [][Next]_vars

\* every step of the run is taken once it can be: the event loop runs each
\* continuation whose await has settled
FairSpec == Init /\ [][Next]_vars /\ WF_vars(Next)

(***************************************************************************)
(* The pure functions applied to inputs drawn from bounded sets.           *)
(***************************************************************************)
IdentChars == {"a", "\"", "."}

RECURSIVE IdentsOfLength(_)
IdentsOfLength(n) ==
    IF n = 0 THEN { <<>> }
    ELSE { <<ch>> \o s : ch \in IdentChars, s \in IdentsOfLength(n - 1) }

Idents == UNION { IdentsOfLength(n) : n \in 0..MaxIdentLen }

ApplyFormatPercent ==
    /\ \E d \in 0..MaxCount : \E n \in 0..d :
          pure' = [op |-> "formatPercentOneDecimal", n |-> n, d |-> d,
                   out |-> formatPercentOneDecimal(n, d)]
    /\ UNCHANGED runVars

ApplyBooleanPercents ==
    /\ \E t \in 0..MaxCount : \E f \in 0..MaxCount :
          LET p == booleanPercents(BigIntToString(t), BigIntToString(f))
          IN pure' = [op |-> "booleanPercents", t |-> t, f |-> f, tp |-> p.tp, fp |-> p.fp]
    /\ UNCHANGED runVars

ApplyQuoteIdent ==
    /\ \E s \in Idents :
          pure' = [op |-> "quoteIdent", identifier |-> s, out |-> quoteIdent(s)]
    /\ UNCHANGED runVars

UpperChar(ch) ==
    IF \E i \in 1..Len(LowerChars) : LowerChars[i] = ch
    THEN UpperChars[CHOOSE i \in 1..Len(LowerChars) : LowerChars[i] = ch]
    ELSE ch

toUpperCase(s) == [i \in 1..Len(s) |-> UpperChar(s[i])]

\* "Integer" of "integer"
Capitalized(s) == IF s = <<>> THEN s ELSE <<UpperChar(s[1])>> \o Tail(s)

\* the names humanDataType recognizes
RecognizedNames == { TypeLabelMap[i][1] : i \in 1..Len(TypeLabelMap) }

\* data_type values outside its table, of 8 characters at most and of more
UnrecognizedNames ==
    { <<"A", "R", "R", "A", "Y">>, <<"U", "S", "E", "R", "-", "D", "E", "F", "I", "N", "E", "D">>, <<"u", "s", "e", "r", "-", "d", "e", "f", "i", "n", "e", "d">>, <<"m", "o", "n", "e", "y">>, <<"t", "s", "v", "e", "c", "t", "o", "r">>,
      <<"t", "x", "i", "d", "_", "s", "n", "a", "p", "s", "h", "o", "t">>, <<"b", "i", "t", " ", "v", "a", "r", "y", "i", "n", "g">>, <<"x", "m", "l">>, <<"P", "g", "_", "L", "s", "n">> }

\* the data_type values humanDataType is applied to, in three letter cases
TypeNames ==
    RecognizedNames \cup { toUpperCase(s) : s \in RecognizedNames }
    \cup { Capitalized(s) : s \in RecognizedNames } \cup UnrecognizedNames

ApplyHumanDataType ==
    /\ \E dt \in TypeNames :
          pure' = [op |-> "humanDataType", dt |-> dt, out |-> humanDataType(dt)]
    /\ UNCHANGED runVars

PureInit == Init /\ variant = "tsx" /\ wantExact = FALSE

PureNext ==
    \/ ApplyFormatPercent
    \/ ApplyBooleanPercents
    \/ ApplyQuoteIdent
    \/ ApplyHumanDataType

PureSpec == PureInit /\ [][PureNext]_vars

(***************************************************************************)
(* Reading the log and the output.                                         *)
(***************************************************************************)
IsCount(q) == q.kind = "count"

\* the count queries issued so far, in order
CountLog == SelectSeq(queries, IsCount)

IsEnumeration(q) == q.kind \in {"tables", "columns", "numericColumns", "booleanColumns"}

\* the run wrote the header of the exact listing
ExactListingWritten ==
    /\ wantExact
    /\ stdout # <<>>
    /\ stdout[1] = Header("exact")

\* the sections written after the header
Sections == IF stdout = <<>> THEN <<>> ELSE Tail(stdout)

\* C1: in exact mode, once the listing is written, every table's section carries
\* the label "error" exactly when its count query failed, and the label "0" exactly
\* when its count query answered zero rows: a failure never reads "0", a genuine
\* zero never reads "error".
C1_FailedCountIsErrorZeroIsZero ==
    ExactListingWritten =>
        /\ Len(Sections) = Len(CountLog)
        /\ \A i \in 1..Len(Sections) :
              LET q == CountLog[i]
                  label == Sections[i].countLabel
              IN /\ Sections[i].title = Dot(q.target[1], q.target[2])
                 /\ (q.state = "failed") <=> (label = <<"e", "r", "r", "o", "r">>)
                 /\ (q.state = "ok" /\ q.answer = <<"0">>) <=> (label = <<"0">>)

\* a listing with a failed table labelled "error" followed by an empty table labelled "0"
C1_Witness ==
    /\ ExactListingWritten
    /\ Len(CountLog) = 2
    /\ CountLog[1].state = "failed"
    /\ CountLog[2].state = "ok" /\ CountLog[2].answer = <<"0">>
    /\ Sections[1].countLabel = <<"e", "r", "r", "o", "r">>
    /\ Sections[2].countLabel = <<"0">>

\* C2: in exact mode a run that got to its count loop ends successfully whatever
\* subset of the count queries failed: one count query was issued per enumerated
\* table, in order, failed ones included; there is one view per table; and every
\* table whose query succeeded holds the count the database answered.
C2_CountFailuresDoNotAbort ==
    (pc = "done" /\ poolState # "none") =>
        /\ thrown = "none"
        /\ exitCode = 0
        /\ stderr = <<>>
        /\ Len(CountLog) = Len(estimated)
        /\ Len(views) = Len(estimated)
        /\ stdout = <<Header("exact")>> \o [i \in 1..Len(views) |-> Section(views[i], "exact", variant)]
        /\ \A i \in 1..Len(estimated) :
              /\ CountLog[i].target = CountTarget(estimated[i])
              /\ CountLog[i].state \in {"ok", "failed"}
              /\ views[i].table_schema = estimated[i].table_schema
              /\ views[i].table_name = estimated[i].table_name
              /\ CountLog[i].state = "ok" =>
                    views[i].exact_rows = BigInt(DigitsValue(CountLog[i].answer))
              /\ CountLog[i].state = "failed" => views[i].exact_rows = NullRows

\* a finished run whose first count query failed and whose second answered 3
C2_Witness ==
    /\ pc = "done"
    /\ exitCode = 0
    /\ Len(CountLog) = 2
    /\ CountLog[1].state = "failed"
    /\ CountLog[2].state = "ok"
    /\ Len(views) = 2
    /\ views[2].exact_rows = BigInt(3)

IsRange(q) == q.kind = "range"

IsHist(q) == q.kind = "hist"

\* the objects the queries of a part of the log are about, in order
TargetsOf(log) == [i \in 1..Len(log) |-> log[i].target]

\* the columns whose MIN/MAX query was issued so far, in order
RangeTargets == TargetsOf(SelectSeq(queries, IsRange))

\* the columns whose true/false query was issued so far, in order
HistTargets == TargetsOf(SelectSeq(queries, IsHist))

FailedEnumeration(q) == IsEnumeration(q) /\ q.state = "failed"

\* this step issued a statistics query that failed
StatQueryFailed ==
    /\ Len(queries') = Len(queries) + 1
    /\ queries'[Len(queries')].kind \in {"range", "hist"}
    /\ queries'[Len(queries')].state = "failed"

KeyOfTarget(target) == ColumnKey(target[1], target[2], target[3])

\* a failed statistics query leaves its column's entry with null statistics and the
\* run on its way, with nothing thrown
C3_FailureRecordedAsUnavailable ==
    StatQueryFailed =>
        LET q == queries'[Len(queries')]
        IN /\ thrown' = "none"
           /\ pc' \in {"rangeQuery", "fetchBooleanHistograms", "histQuery", "dispatch"}
           /\ q.kind = "range" =>
                 /\ MapHas(ranges', KeyOfTarget(q.target))
                 /\ ranges'[KeyOfTarget(q.target)] = [min |-> Null, max |-> Null]
           /\ q.kind = "hist" =>
                 /\ MapHas(hist', KeyOfTarget(q.target))
                 /\ hist'[KeyOfTarget(q.target)] = [true_count |-> Null, false_count |-> Null]

\* once a statistics loop is over, the statistics query of every column its
\* enumeration answered with has been issued, in order, failed ones included; and
\* what is thrown by a query is thrown by a failed enumeration
C3_EveryQualifyingColumnQueried ==
    /\ \A i \in 1..Len(queries) :
          /\ (queries[i].kind = "numericColumns" /\ queries[i].state = "ok"
                /\ pc # "rangeQuery") => RangeTargets = queries[i].answer
          /\ (queries[i].kind = "booleanColumns" /\ queries[i].state = "ok"
                /\ pc # "histQuery") => HistTargets = queries[i].answer
    /\ thrown = "query" => FailedEnumeration(queries[Len(queries)])

\* C3: whatever subset of the statistics queries of the qualifying columns fails,
\* each failed column is recorded with null statistics, the statistics query of
\* every remaining qualifying column is still issued, and the run does not fail.
C3_StatFailuresAreRecoverable ==
    /\ []C3_EveryQualifyingColumnQueried
    /\ [][C3_FailureRecordedAsUnavailable]_vars

\* a run that ended successfully although its first MIN/MAX query and its
\* true/false query failed, the second MIN/MAX query having been answered
C3_Witness ==
    /\ pc = "done"
    /\ exitCode = 0
    /\ Len(RangeTargets) = 2
    /\ SelectSeq(queries, IsRange)[1].state = "failed"
    /\ SelectSeq(queries, IsRange)[2].state = "ok"
    /\ Len(HistTargets) = 1
    /\ SelectSeq(queries, IsHist)[1].state = "failed"
    /\ hist[KeyOfTarget(HistTargets[1])] = [true_count |-> Null, false_count |-> Null]

\* client.connect() rejected: the Client exists and never got connected
ConnectFailed == clientState = "created" /\ pc \in {"catch", "done"}

\* C4: the exit code is 0 exactly when the run ends with nothing thrown; a failed
\* connection or a failed catalog enumeration is the last thing the run asks of the
\* database (no query follows it, no pool is made), and the run then ends with
\* exit code 1 and the error on the error stream.
C4_ExitCodeAndFatalErrors ==
    /\ pc = "done" => (exitCode = 0 <=> thrown = "none")
    /\ pc # "done" => (exitCode = 0 /\ stderr = <<>>)
    /\ (pc = "done" /\ thrown = "none") => stderr = <<>>
    /\ (pc = "done" /\ thrown # "none") =>
          /\ exitCode = 1
          /\ stderr = << [text |-> "Failed to list tables:", err |-> thrown] >>
    /\ ConnectFailed => (thrown = "connect" /\ queries = <<>>)
    /\ \A i \in 1..Len(queries) :
          FailedEnumeration(queries[i]) =>
              /\ i = Len(queries)
              /\ thrown = "query"
              /\ pc \in {"finally", "catch", "done"}
              /\ poolState = "none"

\* a run ended with exit code 1 by the failure of its third query, an enumeration
C4_Witness ==
    /\ pc = "done"
    /\ exitCode = 1
    /\ stderr # <<>>
    /\ Len(queries) = 3
    /\ FailedEnumeration(queries[3])

\* C5: when the run has finished, every client and every pool that was created has
\* had end() called.
C5_EveryClientAndPoolReleased ==
    pc = "done" => (clientState \in {"none", "ended"} /\ poolState \in {"none", "ended"})

\* the table enumeration succeeded and answered with no table
EmptyCatalog ==
    /\ estimated = <<>>
    /\ \E i \in 1..Len(queries) : queries[i].kind = "tables" /\ queries[i].state = "ok"

IsHeaderOrSection(item) == item.kind \in {"header", "table"}

\* C6: when the table enumeration answers with zero tables, in either mode, no
\* header and no table section is written, no count query is issued and no pool
\* is made; the run that ends without a fatal error has written exactly the
\* "No tables found." message.
C6_EmptyCatalogPrintsOnlyTheMessage ==
    EmptyCatalog =>
        /\ SelectSeq(stdout, IsHeaderOrSection) = <<>>
        /\ CountLog = <<>>
        /\ poolState = "none"
        /\ views = <<>>
        /\ (pc = "done" /\ thrown = "none") => stdout = <<NoTablesFound>>

\* an exact-mode run over a catalog with columns and no table, ended with the message
C6_Witness ==
    /\ EmptyCatalog
    /\ wantExact
    /\ res # <<>>
    /\ pc = "done"
    /\ stdout = <<NoTablesFound>>
    /\ exitCode = 0

\* C7: a count query that does not complete is aborted by its timeout and the run
\* goes on to terminate.
C7_HungCountQueryTimesOut ==
    (pc = "countWait" /\ inflight = "never") ~> (pc = "done")

(***************************************************************************)
(* Reading the output of the pure functions.                               *)
(***************************************************************************)
\* s reads "<digits>.<digit>%": a decimal number without a superfluous leading zero,
\* a point, exactly one decimal digit, a percent sign
IsOneDecimalPercent(s) ==
    /\ Len(s) >= 4
    /\ s[Len(s)] = "%"
    /\ IsDigit(s[Len(s) - 1])
    /\ s[Len(s) - 2] = "."
    /\ IsDigits(SubSeq(s, 1, Len(s) - 3))
    /\ (Len(s) > 4 => s[1] # "0")

\* the number of tenths of a percent such a string denotes
TenthsOf(s) == 10 * DigitsValue(SubSeq(s, 1, Len(s) - 3)) + DigitValue(s[Len(s) - 1])

\* r is n * 1000 / d rounded to the nearest integer, halves up
IsRoundHalfUp(r, n, d) == 2 * d * r <= 2000 * n + d /\ 2000 * n + d < 2 * d * (r + 1)

Distance(a, b) == IF a >= b THEN a - b ELSE b - a

\* C8 as stated: for all non-negative t and f the two one-decimal percentages add
\* up to 100.0 within 0.1.
C8_PercentagesSumTo100 ==
    pure.op = "booleanPercents" =>
        /\ IsOneDecimalPercent(pure.tp)
        /\ IsOneDecimalPercent(pure.fp)
        /\ Distance(TenthsOf(pure.tp) + TenthsOf(pure.fp), 1000) <= 1

\* C8 amended: for all non-negative t and f with t + f > 0 the two one-decimal
\* percentages add up to 100.0 within 0.1; for t = f = 0 both are "0.0%".
C8_PercentagesSumTo100UnlessEmpty ==
    pure.op = "booleanPercents" =>
        /\ IsOneDecimalPercent(pure.tp)
        /\ IsOneDecimalPercent(pure.fp)
        /\ pure.t + pure.f > 0 =>
              Distance(TenthsOf(pure.tp) + TenthsOf(pure.fp), 1000) <= 1
        /\ pure.t + pure.f = 0 =>
              (pure.tp = <<"0", ".", "0", "%">> /\ pure.fp = <<"0", ".", "0", "%">>)

\* 1 true and 15 false values: 6.3% and 93.8%, both rounded up from a half, 100.1 in all
C8_Witness ==
    /\ pure.op = "booleanPercents"
    /\ pure.t = 1 /\ pure.f = 15
    /\ pure.tp = <<"6", ".", "3", "%">>
    /\ pure.fp = <<"9", "3", ".", "8", "%">>

\* C9: for 0 <= n <= d, formatPercentOneDecimal(n, d) is "0.0%" when d = 0 and
\* otherwise n * 1000 / d rounded half up to an integer number of tenths, written
\* with exactly one decimal digit; and booleanPercents of zero true and zero
\* false values gives "0.0%" twice.
C9_PercentIsRoundedHalfUp ==
    /\ pure.op = "formatPercentOneDecimal" =>
          /\ IsOneDecimalPercent(pure.out)
          /\ pure.d = 0 => pure.out = <<"0", ".", "0", "%">>
          /\ pure.d # 0 => IsRoundHalfUp(TenthsOf(pure.out), pure.n, pure.d)
    /\ (pure.op = "booleanPercents" /\ pure.t = 0 /\ pure.f = 0) =>
          (pure.tp = <<"0", ".", "0", "%">> /\ pure.fp = <<"0", ".", "0", "%">>)

\* 1 of 16 is 6.25%, a half, written 6.3%
C9_Witness ==
    /\ pure.op = "formatPercentOneDecimal"
    /\ pure.n = 1 /\ pure.d = 16
    /\ pure.out = <<"6", ".", "3", "%">>

\* s is made of characters other than the double quote and of pairs of double quotes
RECURSIVE IsDoubled(_)
IsDoubled(s) ==
    IF s = <<>> THEN TRUE
    ELSE IF Head(s) # "\"" THEN IsDoubled(Tail(s))
    ELSE Len(s) >= 2 /\ s[2] = "\"" /\ IsDoubled(SubSeq(s, 3, Len(s)))

\* such an s with every pair of double quotes read as one
RECURSIVE Undouble(_)
Undouble(s) ==
    IF s = <<>> THEN <<>>
    ELSE IF Head(s) # "\"" THEN <<Head(s)>> \o Undouble(Tail(s))
    ELSE <<"\"">> \o Undouble(SubSeq(s, 3, Len(s)))

IsQuoteChar(ch) == ch = "\""

\* C10: quoteIdent returns its argument with every double quote doubled, between
\* one leading and one trailing double quote: the interior is made of pairs of
\* quotes and other characters, it is longer than the argument by the number of
\* quotes of the argument, and un-doubling it gives the argument back.
C10_QuoteIdentDoublesAndWraps ==
    pure.op = "quoteIdent" =>
        LET out == pure.out
            interior == SubSeq(out, 2, Len(out) - 1)
        IN /\ Len(out) >= 2
           /\ out[1] = "\"" /\ out[Len(out)] = "\""
           /\ Len(interior) = Len(pure.identifier) + Len(SelectSeq(pure.identifier, IsQuoteChar))
           /\ IsDoubled(interior)
           /\ Undouble(interior) = pure.identifier

\* the identifier "a"b quoted: two embedded quotes, each doubled
C10_Witness ==
    /\ pure.op = "quoteIdent"
    /\ pure.identifier = <<"\"", "a", "\"", ".">>
    /\ pure.out = <<"\"", "\"", "\"", "a", "\"", "\"", ".", "\"">>

(***************************************************************************)
(* C11: for every type name, recognized or not and in any letter case, the *)
(* label of humanDataType is at most 8 characters long; a recognized name  *)
(* gets its fixed abbreviation and an unrecognized one passes through, cut *)
(* to its first 8 characters.                                              *)
(***************************************************************************)
\* the first n characters of s
FirstChars(s, n) == IF Len(s) > n THEN SubSeq(s, 1, n) ELSE s

\* the abbreviation the table gives name, a lower-case recognized name
AbbreviationOf(name) ==
    TypeLabelMap[CHOOSE i \in 1..Len(TypeLabelMap) : TypeLabelMap[i][1] = name][2]

ListingWritten == stdout # <<>> /\ stdout[1].kind = "header"

OtherVariant(v) == IF v = "ts" THEN "tsx" ELSE "ts"

\* the views the other source file builds from the same tables, the same column
\* rows and the same statistics
ViewsOf(v) ==
    LET byTable == GroupByTable(res, ranges, hist, v)
    IN [i \in 1..Len(views) |-> [views[i] EXCEPT !.columns = ColumnsOf(byTable, views[i])]]

\* what the other source file writes for them
ListingOf(v) == renderTables(ViewsOf(v), stdout[1].mode, v)

\* the type, the range and the values a row of variant v shows; listTables.ts
\* shows a type and nothing else
TypeShown(row, v) == IF v = "ts" THEN row.type ELSE row.typeLabel
RangeShown(row, v) == IF v = "ts" THEN <<>> ELSE row.range
ValuesShown(row, v) == IF v = "ts" THEN <<>> ELSE row.values

\* tables, row-count labels, column counts and column names of a listing
TablesAndNames(out) ==
    [i \in 1..Len(out) |->
        IF out[i].kind = "table"
        THEN <<out[i].title, out[i].countLabel, out[i].column_count,
               [j \in 1..Len(out[i].rows) |-> out[i].rows[j].name]>>
        ELSE <<out[i].kind, out[i].mode>>]

\* type labels, ranges and boolean value strings of a listing of variant v
TypesRangesValues(out, v) ==
    [i \in 1..Len(out) |->
        IF out[i].kind = "table"
        THEN [j \in 1..Len(out[i].rows) |->
                 <<TypeShown(out[i].rows[j], v), RangeShown(out[i].rows[j], v),
                   ValuesShown(out[i].rows[j], v)>>]
        ELSE <<>>]

\* C12 as claimed: the listing a run writes and the listing the other output mode
\* writes for the same catalog, table data and flags present the same tables,
\* row-count labels, columns, type labels, ranges and boolean value strings.
C12_ModesPresentSameContent ==
    ListingWritten =>
        /\ TablesAndNames(stdout) = TablesAndNames(ListingOf(OtherVariant(variant)))
        /\ TypesRangesValues(stdout, variant)
               = TypesRangesValues(ListingOf(OtherVariant(variant)), OtherVariant(variant))

\* C12 as the code has it: both output modes present the same tables, row-count
\* labels, column counts and column names in the same order; the plain-text mode
\* shows each column's data_type as the catalog gives it and nothing else, the
\* decorated mode the label of humanDataType, a range and a values cell.
C12_ModesPresentSameTablesAndNames ==
    ListingWritten =>
        /\ TablesAndNames(stdout) = TablesAndNames(ListingOf(OtherVariant(variant)))
        /\ \A i \in 1..Len(views) : \A j \in 1..Len(views[i].columns) :
              LET row == stdout[i + 1].rows[j]
                  c == views[i].columns[j]
              IN IF variant = "ts"
                 THEN row = [name |-> c.column_name, type |-> c.data_type]
                 ELSE /\ DOMAIN row = {"name", "typeLabel", "range", "values"}
                      /\ row.typeLabel = humanDataType(c.data_type)

\* a plain-text run wrote a listing whose row shows "integer" where the decorated
\* mode shows "int"
C12_Witness ==
    /\ variant = "ts"
    /\ pc = "done"
    /\ ListingWritten
    /\ \E i \in 2..Len(stdout) : \E j \in 1..Len(stdout[i].rows) :
          /\ stdout[i].rows[j].type = TypeInteger
          /\ ListingOf("tsx")[i].rows[j].typeLabel = <<"i", "n", "t">>

(***************************************************************************)
(* C13: no retries.                                                        *)
(***************************************************************************)
\* no object occurs twice in targets
NoDuplicates(targets) ==
    \A i, j \in 1..Len(targets) : targets[i] = targets[j] => i = j

\* how many queries of this kind the log holds
TimesAsked(kind) == Cardinality({ i \in 1..Len(queries) : queries[i].kind = kind })

\* at most one MIN/MAX query and one true/false query per column, one count query
\* per table, and one query of each enumeration, failed or not
C13_AtMostOneQueryEach ==
    /\ NoDuplicates(RangeTargets)
    /\ NoDuplicates(HistTargets)
    /\ NoDuplicates(TargetsOf(CountLog))
    /\ \A kind \in {"tables", "columns", "numericColumns", "booleanColumns"} :
          TimesAsked(kind) <= 1

\* once past client.connect(), failed or not, the run never comes back to it
C13_ConnectOnce == pc # "start" => pc' # "start" /\ (ConnectFailed => queries' = queries)

\* C13: no retries at any level: in any run at most one statistics query is issued
\* per qualifying column and at most one count query per table, whether or not the
\* query fails, and a failed connection or catalog query is never attempted again.
C13_NoRetries == []C13_AtMostOneQueryEach /\ [][C13_ConnectOnce]_vars

\* a run that ended after a failed MIN/MAX query and a failed count query, each
\* asked once
C13_Witness ==
    /\ pc = "done"
    /\ \E i, j \in 1..Len(queries) :
          /\ queries[i].kind = "range" /\ queries[i].state = "failed"
          /\ queries[j].kind = "count" /\ queries[j].state = "failed"
    /\ C13_AtMostOneQueryEach

(***************************************************************************)
(* C14 and C15: the keys of the maps.                                      *)
(***************************************************************************)
\* the rows of the column enumeration whose (schema, table) is that of t, in order
OwnColumns(t) ==
    Select(res, { k \in 1..Len(res) : /\ res[k].table_schema = t.table_schema
                                      /\ res[k].table_name = t.table_name })

\* names and types of a list of columns or of column rows
NamesAndTypes(cols) == [j \in 1..Len(cols) |-> <<cols[j].column_name, cols[j].data_type>>]

\* C14: the listing is made of exactly one view per enumerated table, in enumeration
\* order, and each view's column list is exactly the columns whose (schema, table)
\* is that table's, in declaration order, empty if the table has none, for all
\* schema and table names, names that contain a "." included.
C14_ViewsArePureJoin ==
    ListingWritten =>
        /\ Len(views) = Len(estimated)
        /\ \A i \in 1..Len(views) :
              /\ views[i].table_schema = estimated[i].table_schema
              /\ views[i].table_name = estimated[i].table_name
              /\ NamesAndTypes(views[i].columns) = NamesAndTypes(OwnColumns(estimated[i]))

\* C15: each key of the maps ranges and hist is written exactly once per run:
\* distinct (schema, table, column) triples never map to the same key, so the
\* statistics recorded for one column are never overwritten by another column's.
C15_KeysWrittenOnce ==
    /\ Cardinality(DOMAIN ranges) = Len(RangeTargets)
    /\ Cardinality(DOMAIN hist) = Len(HistTargets)
    /\ \A i, j \in 1..Len(RangeTargets) :
          KeyOfTarget(RangeTargets[i]) = KeyOfTarget(RangeTargets[j])
          => RangeTargets[i] = RangeTargets[j]
    /\ \A i, j \in 1..Len(HistTargets) :
          KeyOfTarget(HistTargets[i]) = KeyOfTarget(HistTargets[j])
          => HistTargets[i] = HistTargets[j]

(***************************************************************************)
(* C16: output and queries.                                                *)
(***************************************************************************)
\* the log holds the answered enumeration of this kind
Answered(kind) ==
    \E i \in 1..Len(queries) : queries[i].kind = kind /\ queries[i].state = "ok"

\* what the answered enumeration of this kind answered with
AnswerOf(kind) ==
    queries[CHOOSE i \in 1..Len(queries) : queries[i].kind = kind /\ queries[i].state = "ok"].answer

\* every query the run has to make is in the log, and answered or failed: the two
\* catalog enumerations; in listTables.tsx the two statistics enumerations and one
\* query per column they answered with; for an exact listing one count per table
AllQueriesCompleted ==
    /\ \A i \in 1..Len(queries) : queries[i].state # "pending"
    /\ Answered("tables") /\ Answered("columns")
    /\ variant = "tsx" =>
          /\ Answered("numericColumns") /\ Answered("booleanColumns")
          /\ RangeTargets = AnswerOf("numericColumns")
          /\ HistTargets = AnswerOf("booleanColumns")
    /\ (wantExact /\ ListingWritten) => TargetsOf(CountLog) = CountTargets(estimated)

\* whatever is on standard output was written after the last query, and a run with
\* a non-zero exit code has written nothing
C16_OutputAfterAllQueries ==
    /\ stdout # <<>> => AllQueriesCompleted
    /\ exitCode # 0 => stdout = <<>>

\* once something is written, no query is issued or answered any more
C16_NoQueryAfterOutput == stdout # <<>> => queries' = queries

\* C16: nothing is written to standard output before every catalog, statistics and
\* count query of the run has completed; hence a run that ends with a fatal error
\* (non-zero exit code) has produced no header and no table section on standard
\* output.
C16_NoPartialOutput == []C16_OutputAfterAllQueries /\ [][C16_NoQueryAfterOutput]_vars

\* an exact listing of two tables written by the decorated mode after statistics
\* and count queries, one of them failed
C16_Witness ==
    /\ variant = "tsx"
    /\ ExactListingWritten
    /\ Len(CountLog) = 2
    /\ Len(RangeTargets) >= 1
    /\ \E i \in 1..Len(queries) : queries[i].kind = "count" /\ queries[i].state = "failed"

(***************************************************************************)
(* C17: the range cell and the statistics collected.                       *)
(***************************************************************************)
\* a MIN/MAX query about this column was answered with both ends known
RangeKnownFor(schema, table, column) ==
    \E i \in 1..Len(queries) :
       /\ queries[i].kind = "range"
       /\ queries[i].state = "ok"
       /\ queries[i].target = <<schema, table, column>>
       /\ queries[i].answer[1] # Null
       /\ queries[i].answer[2] # Null

\* C17: in the decorated listing a column's range cell is non-empty only if a
\* statistics record with both min and max known was collected for that column;
\* the range of a numeric or temporal column that the column enumeration returned
\* and the statistics enumeration did not is empty, and rendering does not fail.
C17_RangeOnlyFromCollectedStatistics ==
    /\ thrown # "render"
    /\ (variant = "tsx" /\ ListingWritten) =>
          \A i \in 1..Len(views) : \A j \in 1..Len(views[i].columns) :
             stdout[i + 1].rows[j].range # <<>>
             => RangeKnownFor(views[i].table_schema, views[i].table_name,
                              views[i].columns[j].column_name)

====
